---------------------------- MODULE Spec2Model ----------------------------
(***************************************************************************)
(* Model of scripts/modules/proton-ctl/proton_ctl.py: the HTTP control     *)
(* surface of the wireproxy-proton daemon.                                 *)
(*                                                                         *)
(* Strings are sequences of one-character strings, so that the string      *)
(* operations of the handlers (replace, split, strip, basename, join) are  *)
(* computed as Python computes them.  The filesystem is the regions        *)
(* directory and the proton.conf file; the service manager is the daemon's *)
(* running state plus the outcome of each systemctl call, which is an      *)
(* input of the step that makes the call.                                  *)
(***************************************************************************)
EXTENDS Integers, Sequences, FiniteSets, TLC

(***************************************************************************)
(* Bounds of the model.                                                    *)
(***************************************************************************)
MaxFiles == 2

NumClients == 1

\* the requests the server handles at the same time when it is left to its
\* threads
NumCallers == 2

(***************************************************************************)
(* Python string operations.                                               *)
(***************************************************************************)
StartsWith(s, pre) ==
    /\ Len(pre) <= Len(s)
    /\ SubSeq(s, 1, Len(pre)) = pre

EndsWith(s, suf) ==
    /\ Len(suf) <= Len(s)
    /\ SubSeq(s, Len(s) - Len(suf) + 1, Len(s)) = suf

Contains(s, ch) == \E i \in 1..Len(s) : s[i] = ch

RECURSIVE ReplaceFrom(_, _, _)
ReplaceFrom(s, old, i) ==
    IF i > Len(s) THEN <<>>
    ELSE IF /\ i + Len(old) - 1 <= Len(s)
            /\ SubSeq(s, i, i + Len(old) - 1) = old
         THEN ReplaceFrom(s, old, i + Len(old))
         ELSE <<s[i]>> \o ReplaceFrom(s, old, i + 1)

\* str.replace(old, ""): every non-overlapping occurrence, left to right
Remove(s, old) == ReplaceFrom(s, old, 1)

\* the position of the k-th occurrence of sep in s; 0 before the first, and
\* Len(s) + 1 after the last
SepPos(s, sep, k) ==
    LET seps == {i \in 1..Len(s) : s[i] = sep}
    IN  IF k = 0 THEN 0
        ELSE IF k > Cardinality(seps) THEN Len(s) + 1
             ELSE CHOOSE i \in seps : Cardinality({j \in seps : j <= i}) = k

\* str.split(sep) for a one-character separator
Split(s, sep) ==
    LET n == Cardinality({i \in 1..Len(s) : s[i] = sep})
    IN  [k \in 1..(n + 1) |->
            SubSeq(s, SepPos(s, sep, k - 1) + 1, SepPos(s, sep, k) - 1)]

Last(parts) == parts[Len(parts)]

Whitespace == {" ", "\t", "\n", "\r", "\f"}

RECURSIVE LStrip(_)
LStrip(s) ==
    IF s # <<>> /\ Head(s) \in Whitespace THEN LStrip(Tail(s)) ELSE s

RECURSIVE RStrip(_)
RStrip(s) ==
    IF s # <<>> /\ s[Len(s)] \in Whitespace
    THEN RStrip(SubSeq(s, 1, Len(s) - 1))
    ELSE s

\* str.strip()
Strip(s) == RStrip(LStrip(s))

UpperOf ==
    ("a" :> "A") @@ ("b" :> "B") @@ ("c" :> "C") @@ ("d" :> "D") @@
    ("e" :> "E") @@ ("f" :> "F") @@ ("g" :> "G") @@ ("h" :> "H") @@
    ("i" :> "I") @@ ("j" :> "J") @@ ("k" :> "K") @@ ("l" :> "L") @@
    ("m" :> "M") @@ ("n" :> "N") @@ ("o" :> "O") @@ ("p" :> "P") @@
    ("q" :> "Q") @@ ("r" :> "R") @@ ("s" :> "S") @@ ("t" :> "T") @@
    ("u" :> "U") @@ ("v" :> "V") @@ ("w" :> "W") @@ ("x" :> "X") @@
    ("y" :> "Y") @@ ("z" :> "Z")

\* str.upper()
Upper(s) ==
    [i \in 1..Len(s) |-> IF s[i] \in DOMAIN UpperOf THEN UpperOf[s[i]] ELSE s[i]]

\* os.path.basename(path)
Basename(path) == Last(Split(path, "/"))

\* os.path.join(a, b)
PathJoin(a, b) ==
    IF StartsWith(b, <<"/">>) THEN b
    ELSE IF a = <<>> \/ EndsWith(a, <<"/">>) THEN a \o b
         ELSE a \o <<"/">> \o b

(***************************************************************************)
(* Module-level configuration (proton_ctl.py lines 16-20).                 *)
(***************************************************************************)
CONFIG_DIR ==
    <<"/","e","t","c","/","w","i","r","e","p","r","o","x","y">>

PROTON_CONFIG ==
    PathJoin(CONFIG_DIR, <<"p","r","o","t","o","n",".","c","o","n","f">>)

REGIONS_DIR ==
    PathJoin(CONFIG_DIR, <<"r","e","g","i","o","n","s">>)

SERVICE_NAME == "wireproxy-proton"

DEFAULT_SOCKS_BIND ==
    <<"1","2","7",".","0",".","0",".","1",":","2","5","3","4","5">>

DOT_CONF == <<".","c","o","n","f">>

(***************************************************************************)
(* The profile file names the regions directory may hold, and the region   *)
(* codes a caller may send.                                                *)
(***************************************************************************)
F_proton_jp ==
    <<"p","r","o","t","o","n","-","j","p",".","c","o","n","f">>

F_proton_us ==
    <<"p","r","o","t","o","n","-","u","s",".","c","o","n","f">>

F_wg_jp ==
    <<"w","g","-","j","p",".","c","o","n","f">>

F_k_eq_v ==
    <<"k","=","v",".","c","o","n","f">>

F_notes ==
    <<"n","o","t","e","s",".","t","x","t">>

F_x_dash ==
    <<"x","-",".","c","o","n","f">>

FileNames == {F_proton_jp, F_proton_us, F_wg_jp, F_k_eq_v, F_notes, F_x_dash}

C_xx == <<"x","x">>

(***************************************************************************)
(* Optional values: None, a value, or a raised exception.                  *)
(***************************************************************************)
None == [tag |-> "none", val |-> <<>>]

Some(v) == [tag |-> "some", val |-> v]

Raise == [tag |-> "raise", val |-> <<>>]

(***************************************************************************)
(* Region code of a file name: lines 29-34 and 54-57.                      *)
(***************************************************************************)
\* RegionCodeOf taking the part before the first "-": split("-")[0]
RegionCodeOf_FirstPart(f) ==
    LET name == Remove(f, DOT_CONF)
    IN  IF Contains(name, "-") THEN Split(name, "-")[1] ELSE name

RegionCodeOf(f) ==
    LET name == Remove(f, DOT_CONF)
    IN  IF Contains(name, "-") THEN Last(Split(name, "-")) ELSE name

EmptyMap == [k \in {} |-> None]

Put(m, k, v) == [x \in (DOMAIN m) \cup {k} |-> IF x = k THEN v ELSE m[x]]

\* ScanRegions without the `f.endswith(".conf")` test of line 28
RECURSIVE ScanRegions_AnyFile(_, _, _)
ScanRegions_AnyFile(listing, i, regions) ==
    IF i > Len(listing) THEN regions
    ELSE ScanRegions_AnyFile(listing, i + 1,
            Put(regions, RegionCodeOf(listing[i]),
                [file |-> PathJoin(REGIONS_DIR, listing[i]),
                 name |-> Upper(RegionCodeOf(listing[i]))]))

RECURSIVE ScanRegions(_, _, _)
ScanRegions(listing, i, regions) ==
    IF i > Len(listing) THEN regions
    ELSE LET f == listing[i]
         IN  IF EndsWith(f, DOT_CONF)
             THEN ScanRegions(listing, i + 1,
                     Put(regions, RegionCodeOf(f),
                         [file |-> PathJoin(REGIONS_DIR, f),
                          name |-> Upper(RegionCodeOf(f))]))
             ELSE ScanRegions(listing, i + 1, regions)

\* get_available_regions(): listing is os.listdir(REGIONS_DIR) in the order
\* the filesystem returns it
get_available_regions(dir, listing) ==
    IF dir.exists THEN ScanRegions(listing, 1, EmptyMap) ELSE EmptyMap

\* the orders in which os.listdir may enumerate a set of files
Listings(files) ==
    {l \in [1..Cardinality(files) -> files] :
        \A i, j \in 1..Cardinality(files) : l[i] = l[j] => i = j}

(***************************************************************************)
(* proton.conf: update_config writes it, get_current_region parses it.     *)
(***************************************************************************)
NoFile == [exists |-> FALSE, content |-> <<>>, mode |-> "none"]

\* path_exists without the test: start() of line 158 never refuses
path_exists_Always(file) == TRUE

\* os.path.exists(PROTON_CONFIG)
path_exists(file) == file.exists

ConfigContent(wg_config_path, socks_bind) ==
    <<"#"," ","P","r","o","t","o","n"," ","V","P","N"," ",
      "C","o","n","f","i","g","u","r","a","t","i","o","n","\n",
      "#"," ","M","a","n","a","g","e","d"," ","b","y"," ",
      "p","r","o","t","o","n","-","c","t","l"," ","A","P","I","\n",
      "\n",
      "W","G","C","o","n","f","i","g"," ","="," ">> \o wg_config_path \o
    <<"\n",
      "\n",
      "[","S","o","c","k","s","5","]","\n",
      "B","i","n","d","A","d","d","r","e","s","s"," ","="," ">> \o socks_bind \o
    <<"\n">>

\* update_config writing the file name of the profile, not its path
update_config_Basename(wg_config_path) ==
    [exists  |-> TRUE,
     content |-> ConfigContent(Basename(wg_config_path), DEFAULT_SOCKS_BIND),
     mode    |-> "0600"]

\* update_config(wg_config_path): the file after the call
update_config(wg_config_path) ==
    [exists  |-> TRUE,
     content |-> ConfigContent(wg_config_path, DEFAULT_SOCKS_BIND),
     mode    |-> "0600"]

RECURSIVE ScanLines(_, _)
ScanLines(lines, i) ==
    IF i > Len(lines) THEN None
    ELSE IF StartsWith(lines[i], <<"W","G","C","o","n","f","i","g">>)
         THEN LET parts == Split(lines[i], "=")
              IN  IF Len(parts) < 2 THEN Raise
                  ELSE Some(RegionCodeOf(Basename(Strip(parts[2]))))
         ELSE ScanLines(lines, i + 1)

\* open(PROTON_CONFIG, "r") succeeds
Readable(file) == file.mode # "0000"

\* get_current_region() on the file cfg: open() of line 47 raises on a file
\* the process may not read
get_current_region(cfg) ==
    IF ~path_exists(cfg) THEN None
    ELSE IF ~Readable(cfg) THEN Raise
    ELSE ScanLines(Split(cfg.content, "\n"), 1)

(***************************************************************************)
(* Inputs: the request body of /api/proton/switch and the outcome of a     *)
(* systemctl call.                                                         *)
(***************************************************************************)
Codes ==
    {RegionCodeOf(f) : f \in {g \in FileNames : EndsWith(g, DOT_CONF)}}
        \cup {<<>>, C_xx}

\* data.get("region"): absent, or the string sent
Requests == {None} \cup {Some(c) : c \in Codes}

\* Falsy as `region is None`: the empty string passes
Falsy_NoneOnly(req) == req.tag = "none"

\* `not region`
Falsy(req) == req.tag = "none" \/ req.val = <<>>

\* str(e) of the exception subprocess.run raised
Diags == {"CalledProcessError", "TimeoutExpired"}

DaemonStates == {"stopped", "running"}

Procs == 1..NumClients

Callers == 1..NumCallers

(***************************************************************************)
(* State.                                                                  *)
(*   regionsDir  the regions directory: whether it exists, and its files   *)
(*               (nothing in the program writes to it)                     *)
(*   config      the proton.conf file                                      *)
(*   daemon      the running state the service manager holds               *)
(*   loc         each request handler's position and local variables       *)
(*   last        the last completed request: operation, argument, response,*)
(*               the filesystem and service-manager calls it made, and the *)
(*               config file and daemon state when it began                *)
(*   loaded      the proton.conf the daemon read when it was last started  *)
(*               or restarted, NoFile while it is stopped                  *)
(*   switched    the region of the last switch request that returned       *)
(*               success, None before the first                            *)
(*   lastSwitch  how the last switch request ended: "none" before the      *)
(*               first, "failed" with an error response, "answered" with   *)
(*               success after a status query that was answered,           *)
(*               "unanswered" with success after one that failed           *)
(***************************************************************************)
VARIABLES regionsDir, config, daemon, loaded, loc, last, switched, lastSwitch

vars ==
    <<regionsDir, config, daemon, loaded, loc, last, switched, lastSwitch>>

(***************************************************************************)
(* JSON responses: keys is the set of keys of the body.                    *)
(***************************************************************************)
NoResp ==
    [status |-> 0, keys |-> {}, error |-> "", errRegion |-> <<>>,
     diag |-> "", success |-> FALSE, region |-> None, restarted |-> FALSE,
     running |-> FALSE, available |-> {}, regions |-> EmptyMap,
     current |-> None, config_file |-> <<>>, health |-> ""]

Unhandled == [NoResp EXCEPT !.status = 500]

IdleLocal ==
    [pc |-> "idle", region |-> <<>>, file |-> <<>>, fs |-> <<>>, sm |-> <<>>,
     seen |-> "stopped", preConfig |-> NoFile, preDaemon |-> "stopped"]

NoCall ==
    [op |-> "none", arg |-> None, resp |-> NoResp, fs |-> <<>>, sm |-> <<>>,
     preConfig |-> NoFile, preDaemon |-> "stopped"]

AllIdle == \A q \in DOMAIN loc : loc[q].pc = "idle"

\* the handler of p returns resp
Return(p, op, arg, resp, fs, sm, preConfig, preDaemon) ==
    /\ last' = [op |-> op, arg |-> arg, resp |-> resp, fs |-> fs, sm |-> sm,
                preConfig |-> preConfig, preDaemon |-> preDaemon]
    /\ switched' = IF op = "switch" /\ resp.status = 200 THEN arg ELSE switched
    /\ lastSwitch' =
          IF op # "switch" THEN lastSwitch
          ELSE IF resp.status # 200 THEN "failed"
          ELSE IF sm[1].ok THEN "answered" ELSE "unanswered"
    /\ loc' = [loc EXCEPT ![p] = IdleLocal]

(***************************************************************************)
(* Service manager.                                                        *)
(***************************************************************************)
\* get_service_status answering False whatever systemctl said
get_service_status_Never(ok) == FALSE

\* get_service_status answering True whatever systemctl said
get_service_status_Always(ok) == TRUE

\* get_service_status(): ok is whether `systemctl is-active` ran and printed
\* the unit's state; any exception gives False
get_service_status(ok) == ok /\ daemon = "running"

\* the states `systemctl <action> wireproxy-proton` may leave the daemon in:
\* a call that succeeded has carried the action out, a call that failed or
\* timed out may or may not have
systemctl(action, ok) ==
    IF ok
    THEN IF action = "stop" THEN {"stopped"} ELSE {"running"}
    ELSE IF action = "stop" THEN {daemon, "stopped"} ELSE DaemonStates

\* what the daemon holds after `systemctl <action>` left it in state d: a
\* daemon that is started reads proton.conf as it is then, one that was
\* running and was not restarted keeps what it read, one that a failed
\* restart leaves running may have been restarted or not
Loads(action, ok, d) ==
    IF d = "stopped" THEN {NoFile}
    ELSE IF daemon = "stopped" THEN {config}
    ELSE IF action = "restart"
         THEN IF ok THEN {config} ELSE {config, loaded}
         ELSE {loaded}

\* run_systemctl without check=True: a failed systemctl goes unnoticed
run_systemctl_Unchecked(ok, diag) == [success |-> TRUE, error |-> ""]

\* run_systemctl(action): the pair (success, error) it returns
run_systemctl(ok, diag) ==
    [success |-> ok, error |-> IF ok THEN "" ELSE diag]

Init ==
    /\ regionsDir \in
          {[exists |-> FALSE, files |-> {}]} \cup
          {[exists |-> TRUE, files |-> fs] :
              fs \in {x \in SUBSET FileNames : Cardinality(x) <= MaxFiles}}
    /\ config = NoFile
    /\ daemon = "stopped"
    /\ loc = [p \in Procs |-> IdleLocal]
    /\ last = NoCall
    /\ switched = None
    /\ loaded = NoFile
    /\ lastSwitch = "none"

(***************************************************************************)
(* POST /api/proton/switch, lines 122-152.                                 *)
(***************************************************************************)
\* lines 125-136: validation and catalog lookup
SwitchBegin(p, req, listing) ==
    /\ loc[p].pc = "idle"
    /\ UNCHANGED <<regionsDir, config, daemon, loaded>>
    /\ IF Falsy(req)
       THEN Return(p, "switch", req,
                   [NoResp EXCEPT !.status = 400, !.keys = {"error"},
                                  !.error = "Region required"],
                   <<>>, <<>>, config, daemon)
       ELSE LET available == get_available_regions(regionsDir, listing)
                fs == IF regionsDir.exists
                      THEN <<"exists:regions", "listdir:regions">>
                      ELSE <<"exists:regions">>
            IN  IF req.val \notin DOMAIN available
                THEN Return(p, "switch", req,
                            [NoResp EXCEPT !.status = 400,
                                           !.keys = {"error", "available"},
                                           !.error = "Unknown region: ",
                                           !.errRegion = req.val,
                                           !.available = DOMAIN available],
                            fs, <<>>, config, daemon)
                ELSE /\ loc' = [loc EXCEPT ![p] =
                                  [pc |-> "update", region |-> req.val,
                                   file |-> available[req.val].file,
                                   fs |-> fs, sm |-> <<>>, seen |-> "stopped",
                                   preConfig |-> config, preDaemon |-> daemon]]
                     /\ UNCHANGED <<last, switched, lastSwitch>>

\* SwitchUpdate that leaves proton.conf alone when it already names the file
SwitchUpdate_SkipSame(p) ==
    /\ loc[p].pc = "update"
    /\ config' = update_config(loc[p].file)
    /\ loc' = [loc EXCEPT ![p].pc = "query",
                          ![p].fs = IF config = update_config(loc[p].file)
                                    THEN @
                                    ELSE @ \o <<"makedirs", "write:proton.conf",
                                                "chmod:proton.conf">>]
    /\ UNCHANGED <<regionsDir, daemon, loaded, last, switched, lastSwitch>>

\* line 139: update_config(available[region]["file"])
SwitchUpdate(p) ==
    /\ loc[p].pc = "update"
    /\ config' = update_config(loc[p].file)
    /\ loc' = [loc EXCEPT ![p].pc = "query",
                          ![p].fs = @ \o <<"makedirs", "write:proton.conf",
                                           "chmod:proton.conf">>]
    /\ UNCHANGED <<regionsDir, daemon, loaded, last, switched, lastSwitch>>

\* lines 142-143 and 148-152: was_running = get_service_status()
SwitchQuery(p, ok) ==
    /\ loc[p].pc = "query"
    /\ UNCHANGED <<regionsDir, config, daemon, loaded>>
    /\ LET was_running == get_service_status(ok)
           sm == Append(loc[p].sm, [action |-> "is-active", ok |-> ok])
       IN  IF was_running
           THEN /\ loc' = [loc EXCEPT ![p].pc = "restart", ![p].sm = sm,
                                      ![p].seen = daemon]
                /\ UNCHANGED <<last, switched, lastSwitch>>
           ELSE Return(p, "switch", Some(loc[p].region),
                       [NoResp EXCEPT !.status = 200,
                                      !.keys = {"success", "region", "restarted"},
                                      !.success = TRUE,
                                      !.region = Some(loc[p].region),
                                      !.restarted = was_running],
                       loc[p].fs, sm, loc[p].preConfig, loc[p].preDaemon)

\* SwitchRestart of a handler that restarts first and writes proton.conf
\* afterwards
SwitchRestart_ThenWrite(p, ok, diag) ==
    /\ loc[p].pc = "restart"
    /\ daemon' \in systemctl("restart", ok)
    /\ loaded' \in Loads("restart", ok, daemon')
    /\ config' = update_config(loc[p].file)
    /\ UNCHANGED regionsDir
    /\ Return(p, "switch", Some(loc[p].region),
              IF ok
              THEN [NoResp EXCEPT !.status = 200,
                                  !.keys = {"success", "region", "restarted"},
                                  !.success = TRUE,
                                  !.region = Some(loc[p].region),
                                  !.restarted = TRUE]
              ELSE [NoResp EXCEPT !.status = 500, !.keys = {"error"},
                                  !.error = "Failed to restart: ",
                                  !.diag = diag],
              loc[p].fs, Append(loc[p].sm, [action |-> "restart", ok |-> ok]),
              loc[p].preConfig, loc[p].preDaemon)

\* lines 144-152: run_systemctl("restart") when was_running
SwitchRestart(p, ok, diag) ==
    /\ loc[p].pc = "restart"
    /\ daemon' \in systemctl("restart", ok)
    /\ loaded' \in Loads("restart", ok, daemon')
    /\ UNCHANGED <<regionsDir, config>>
    /\ LET sm == Append(loc[p].sm, [action |-> "restart", ok |-> ok])
           res == run_systemctl(ok, diag)
       IN  IF res.success
           THEN Return(p, "switch", Some(loc[p].region),
                       [NoResp EXCEPT !.status = 200,
                                      !.keys = {"success", "region", "restarted"},
                                      !.success = TRUE,
                                      !.region = Some(loc[p].region),
                                      !.restarted = TRUE],
                       loc[p].fs, sm, loc[p].preConfig, loc[p].preDaemon)
           ELSE Return(p, "switch", Some(loc[p].region),
                       [NoResp EXCEPT !.status = 500, !.keys = {"error"},
                                      !.error = "Failed to restart: ",
                                      !.diag = res.error],
                       loc[p].fs, sm, loc[p].preConfig, loc[p].preDaemon)

(***************************************************************************)
(* POST /api/proton/start, lines 155-164.                                  *)
(***************************************************************************)
Start(p, ok, diag) ==
    /\ loc[p].pc = "idle"
    /\ UNCHANGED <<regionsDir, config>>
    /\ IF ~path_exists(config)
       THEN /\ UNCHANGED <<daemon, loaded>>
            /\ Return(p, "start", None,
                      [NoResp EXCEPT !.status = 400, !.keys = {"error"},
                          !.error = "No configuration found. Switch to a region first."],
                      <<"exists:proton.conf">>, <<>>, config, daemon)
       ELSE LET res == run_systemctl(ok, diag)
            IN  /\ daemon' \in systemctl("start", ok)
                /\ loaded' \in Loads("start", ok, daemon')
                /\ Return(p, "start", None,
                          IF res.success
                          THEN [NoResp EXCEPT !.status = 200,
                                              !.keys = {"success", "running"},
                                              !.success = TRUE, !.running = TRUE]
                          ELSE [NoResp EXCEPT !.status = 500, !.keys = {"error"},
                                              !.diag = res.error],
                          <<"exists:proton.conf">>,
                          <<[action |-> "start", ok |-> ok]>>, config, daemon)

(***************************************************************************)
(* POST /api/proton/stop, lines 167-173.                                   *)
(***************************************************************************)
\* Stop that skips the service manager when the daemon is already stopped
Stop_OnlyIfRunning(p, ok, diag) ==
    /\ loc[p].pc = "idle"
    /\ UNCHANGED <<regionsDir, config>>
    /\ IF daemon = "stopped"
       THEN /\ UNCHANGED <<daemon, loaded>>
            /\ Return(p, "stop", None,
                      [NoResp EXCEPT !.status = 200,
                                     !.keys = {"success", "running"},
                                     !.success = TRUE, !.running = FALSE],
                      <<>>, <<>>, config, daemon)
       ELSE /\ daemon' \in systemctl("stop", ok)
            /\ loaded' \in Loads("stop", ok, daemon')
            /\ Return(p, "stop", None,
                      IF ok
                      THEN [NoResp EXCEPT !.status = 200,
                                          !.keys = {"success", "running"},
                                          !.success = TRUE, !.running = FALSE]
                      ELSE [NoResp EXCEPT !.status = 500, !.keys = {"error"},
                                          !.diag = diag],
                      <<>>, <<[action |-> "stop", ok |-> ok]>>, config, daemon)

Stop(p, ok, diag) ==
    LET res == run_systemctl(ok, diag)
    IN  /\ loc[p].pc = "idle"
        /\ UNCHANGED <<regionsDir, config>>
        /\ daemon' \in systemctl("stop", ok)
        /\ loaded' \in Loads("stop", ok, daemon')
        /\ Return(p, "stop", None,
                  IF res.success
                  THEN [NoResp EXCEPT !.status = 200,
                                      !.keys = {"success", "running"},
                                      !.success = TRUE, !.running = FALSE]
                  ELSE [NoResp EXCEPT !.status = 500, !.keys = {"error"},
                                      !.diag = res.error],
                  <<>>, <<[action |-> "stop", ok |-> ok]>>, config, daemon)

(***************************************************************************)
(* GET /api/proton/status, lines 103-110.                                  *)
(***************************************************************************)
\* status() answering region none when no profile file has the region's code
status_OnlyListed(ok) ==
    LET region == get_current_region(config)
        codes == {RegionCodeOf(f) :
                     f \in {g \in regionsDir.files : EndsWith(g, DOT_CONF)}}
    IN  IF region = Raise THEN Unhandled
        ELSE [NoResp EXCEPT !.status = 200,
                            !.keys = {"running", "region", "config_file"},
                            !.running = get_service_status(ok),
                            !.region = IF region.tag = "some"
                                          /\ region.val \notin codes
                                       THEN None ELSE region,
                            !.config_file = PROTON_CONFIG]

\* the response of status() when the is-active query has outcome ok
status(ok) ==
    LET region == get_current_region(config)
    IN  IF region = Raise THEN Unhandled
        ELSE [NoResp EXCEPT !.status = 200,
                            !.keys = {"running", "region", "config_file"},
                            !.running = get_service_status(ok),
                            !.region = region,
                            !.config_file = PROTON_CONFIG]

Status(p, ok) ==
    /\ loc[p].pc = "idle"
    /\ UNCHANGED <<regionsDir, config, daemon, loaded>>
    /\ Return(p, "status", None, status(ok),
              IF path_exists(config)
              THEN <<"exists:proton.conf", "read:proton.conf">>
              ELSE <<"exists:proton.conf">>,
              <<[action |-> "is-active", ok |-> ok]>>, config, daemon)

(***************************************************************************)
(* GET /api/proton/regions, lines 113-119.                                 *)
(***************************************************************************)
\* the response of regions() when os.listdir enumerates in the order listing
regions(listing) ==
    LET current == get_current_region(config)
    IN  IF current = Raise THEN Unhandled
        ELSE [NoResp EXCEPT !.status = 200,
                            !.keys = {"regions", "current"},
                            !.regions = get_available_regions(regionsDir, listing),
                            !.current = current]

Regions(p, listing) ==
    /\ loc[p].pc = "idle"
    /\ UNCHANGED <<regionsDir, config, daemon, loaded>>
    /\ Return(p, "regions", None, regions(listing),
              (IF regionsDir.exists
               THEN <<"exists:regions", "listdir:regions">>
               ELSE <<"exists:regions">>) \o
              (IF path_exists(config)
               THEN <<"exists:proton.conf", "read:proton.conf">>
               ELSE <<"exists:proton.conf">>),
              <<>>, config, daemon)

(***************************************************************************)
(* GET /api/proton/health, lines 176-179.                                  *)
(***************************************************************************)
Health(p) ==
    /\ loc[p].pc = "idle"
    /\ UNCHANGED <<regionsDir, config, daemon, loaded>>
    /\ Return(p, "health", None,
              [NoResp EXCEPT !.status = 200, !.keys = {"status"},
                             !.health = "ok"],
              <<>>, <<>>, config, daemon)

(***************************************************************************)
(* One request at a time: a request begins when no handler is running.     *)
(***************************************************************************)
Next ==
    \/ \E p \in Procs, req \in Requests :
          \E listing \in Listings(regionsDir.files) :
             AllIdle /\ SwitchBegin(p, req, listing)
    \/ \E p \in Procs : SwitchUpdate(p)
    \/ \E p \in Procs, ok \in BOOLEAN : SwitchQuery(p, ok)
    \/ \E p \in Procs, ok \in BOOLEAN, diag \in Diags : SwitchRestart(p, ok, diag)
    \/ \E p \in Procs, ok \in BOOLEAN, diag \in Diags : AllIdle /\ Start(p, ok, diag)
    \/ \E p \in Procs, ok \in BOOLEAN, diag \in Diags : AllIdle /\ Stop(p, ok, diag)
    \/ \E p \in Procs, ok \in BOOLEAN : AllIdle /\ Status(p, ok)
    \/ \E p \in Procs :
          \E listing \in Listings(regionsDir.files) :
             AllIdle /\ Regions(p, listing)
    \/ \E p \in Procs : AllIdle /\ Health(p)

Spec == Init /\ [][Next]_vars

(***************************************************************************)
(* Faults of the filesystem: proton.conf as something other than the       *)
(* program left it, and update_config failing part way (lines 83-86 are    *)
(* not inside a try block, nor is the call of line 139).                   *)
(***************************************************************************)
\* a proton.conf the process may not read
F_unreadable == [exists |-> TRUE, content |-> <<>>, mode |-> "0000"]

\* a proton.conf whose WGConfig line has no "="
F_no_equals ==
    [exists |-> TRUE, content |-> <<"W","G","C","o","n","f","i","g","\n">>,
     mode |-> "0600"]

\* a proton.conf without a WGConfig line
F_no_line ==
    [exists |-> TRUE, content |-> <<"[","S","o","c","k","s","5","]","\n">>,
     mode |-> "0600"]

\* a proton.conf whose WGConfig line names no path
F_no_path ==
    [exists |-> TRUE,
     content |-> <<"W","G","C","o","n","f","i","g"," ","=","\n">>,
     mode |-> "0600"]

Tampered == {F_unreadable, F_no_equals, F_no_line, F_no_path}

\* somebody else replaces proton.conf between two requests
Tamper(file) ==
    /\ AllIdle
    /\ config' = file
    /\ UNCHANGED <<regionsDir, daemon, loaded, loc, last, switched, lastSwitch>>

\* the steps of update_config that raise OSError
Stages == {"makedirs", "open", "write", "chmod"}

\* proton.conf after update_config(wg_config_path) raised at stage: nothing
\* is written before open() succeeded, open(.., "w") has truncated the file
\* when write() raises, the content is there when chmod() raises
update_config_raises(wg_config_path, stage) ==
    IF stage \in {"makedirs", "open"} THEN config
    ELSE [exists  |-> TRUE,
          content |-> IF stage = "write" THEN <<>>
                      ELSE ConfigContent(wg_config_path, DEFAULT_SOCKS_BIND),
          mode    |-> IF config.exists THEN config.mode ELSE "0644"]

\* line 139 raising: the exception leaves switch_region(), Flask answers 500
SwitchUpdateRaises(p, stage) ==
    /\ loc[p].pc = "update"
    /\ config' = update_config_raises(loc[p].file, stage)
    /\ UNCHANGED <<regionsDir, daemon, loaded>>
    /\ Return(p, "switch", Some(loc[p].region), Unhandled,
              loc[p].fs \o <<"raise", stage>>, <<>>,
              loc[p].preConfig, loc[p].preDaemon)

NextFault ==
    \/ Next
    \/ \E file \in Tampered : Tamper(file)
    \/ \E p \in Procs, stage \in Stages : SwitchUpdateRaises(p, stage)

\* the faults are followed from one regions directory, one profile in it
InitFault ==
    /\ Init
    /\ regionsDir = [exists |-> TRUE, files |-> {F_proton_jp}]

SpecFault == InitFault /\ [][NextFault]_vars

(***************************************************************************)
(* Profiles going away: nothing in the program writes to the regions       *)
(* directory, whoever installs the profiles may remove one between two     *)
(* requests.                                                               *)
(***************************************************************************)
RemoveProfile(f) ==
    /\ AllIdle
    /\ f \in regionsDir.files
    /\ regionsDir' = [regionsDir EXCEPT !.files = @ \ {f}]
    /\ UNCHANGED <<config, daemon, loaded, loc, last, switched, lastSwitch>>

NextProfiles ==
    \/ Next
    \/ \E f \in FileNames : RemoveProfile(f)

\* the removals are followed from one regions directory
InitProfiles ==
    /\ Init
    /\ regionsDir = [exists |-> TRUE, files |-> {F_proton_jp, F_k_eq_v}]

SpecProfiles == InitProfiles /\ [][NextProfiles]_vars

(***************************************************************************)
(* Requests at the same time: app.run serves each request on a thread of   *)
(* its own and the module takes no lock, so the handlers interleave at     *)
(* their calls to the filesystem and to the service manager.               *)
(***************************************************************************)
\* the state after switchRegion("jp") and startDaemon(), both successful, in
\* a directory of two profiles
InitRunning ==
    /\ regionsDir = [exists |-> TRUE, files |-> {F_proton_jp, F_proton_us}]
    /\ config = update_config(PathJoin(REGIONS_DIR, F_proton_jp))
    /\ daemon = "running"
    /\ loaded = config
    /\ loc = [p \in Callers |-> IdleLocal]
    /\ last = [op |-> "start", arg |-> None,
               resp |-> [NoResp EXCEPT !.status = 200,
                                       !.keys = {"success", "running"},
                                       !.success = TRUE, !.running = TRUE],
               fs |-> <<"exists:proton.conf">>,
               sm |-> <<[action |-> "start", ok |-> TRUE]>>,
               preConfig |-> config, preDaemon |-> "stopped"]
    /\ switched = Some(RegionCodeOf(F_proton_jp))
    /\ lastSwitch = "answered"

\* switch requests with codes of the catalog, every restart succeeding
NextSwitches ==
    \/ \E p \in Callers, f \in regionsDir.files :
          \E listing \in Listings(regionsDir.files) :
             SwitchBegin(p, Some(RegionCodeOf(f)), listing)
    \/ \E p \in Callers : SwitchUpdate(p)
    \/ \E p \in Callers, ok \in BOOLEAN : SwitchQuery(p, ok)
    \/ \E p \in Callers, diag \in Diags : SwitchRestart(p, TRUE, diag)

SpecSwitches == InitRunning /\ [][NextSwitches]_vars

\* the two requests of a race between a switch request and a start or stop
\* request
Racers == {p \in Callers : p <= 2}

\* switch, start and stop requests of the two, any outcome of the service
\* manager
NextConc ==
    \/ \E p \in Racers, f \in regionsDir.files :
          \E listing \in Listings(regionsDir.files) :
             SwitchBegin(p, Some(RegionCodeOf(f)), listing)
    \/ \E p \in Racers : SwitchUpdate(p)
    \/ \E p \in Racers, ok \in BOOLEAN : SwitchQuery(p, ok)
    \/ \E p \in Racers, ok \in BOOLEAN, diag \in Diags :
          SwitchRestart(p, ok, diag)
    \/ \E p \in Racers, ok \in BOOLEAN, diag \in Diags : Start(p, ok, diag)
    \/ \E p \in Racers, ok \in BOOLEAN, diag \in Diags : Stop(p, ok, diag)

SpecConc == InitRunning /\ [][NextConc]_vars

(***************************************************************************)
(* Reading the responses.                                                  *)
(***************************************************************************)
Success(r) == r.status = 200 /\ "success" \in r.keys /\ r.success

InvalidRequest(r) == r.status = 400 /\ r.error = "Region required"

UnknownRegion(r) == r.status = 400 /\ r.error = "Unknown region: "

RestartFailed(r) == r.status = 500 /\ r.error = "Failed to restart: "

NotConfigured(r) ==
    r.status = 400 /\ r.error = "No configuration found. Switch to a region first."

StartFailed(r) == r.status = 500 /\ "error" \in r.keys /\ r.diag \in Diags

\* listRegions(): the keys the catalog can have for the directory's content
ListRegionsKeys ==
    {RegionCodeOf(f) : f \in {g \in regionsDir.files : EndsWith(g, DOT_CONF)}}

StopFailed(r) == r.status = 500 /\ "error" \in r.keys /\ r.diag \in Diags

\* the handler of the last request, an op request, has returned and no
\* request has begun since
Done(op) == AllIdle /\ last.op = op

\* the last request was switchRegion(r) with r a key of listRegions()
SwitchedKnown ==
    /\ Done("switch")
    /\ ~Falsy(last.arg)
    /\ last.arg.val \in ListRegionsKeys

\* the calls the last request made to the service manager that change the
\* daemon
Mutating(sm) == {i \in 1..Len(sm) : sm[i].action # "is-active"}

(***************************************************************************)
(* Claims.                                                                 *)
(***************************************************************************)

\* C1: immediately after switchRegion(r) returns success, currentRegionCode()
\* returns exactly r.
C1_RoundTrip ==
    (Done("switch") /\ Success(last.resp))
        => get_current_region(config) = last.arg

\* C2: between requests, currentRegionCode() is none if no config file exists,
\* and otherwise the region of the last switchRegion call that returned
\* success.
C2_CurrentIsLastSuccess ==
    AllIdle =>
        get_current_region(config) =
            IF path_exists(config) THEN switched ELSE None

\* C3: switchRegion(c) with a non-empty c that is not a key of listRegions()
\* fails with UnknownRegion (400), reports exactly the keys of listRegions() as
\* available, leaves the config file as it was and calls the service manager
\* not at all; no handler goes on to the config write with such a c.
C3_UnknownRegion ==
    /\ (/\ Done("switch")
        /\ last.arg.tag = "some"
        /\ last.arg.val # <<>>
        /\ last.arg.val \notin ListRegionsKeys)
          => /\ UnknownRegion(last.resp)
             /\ last.resp.keys = {"error", "available"}
             /\ last.resp.errRegion = last.arg.val
             /\ last.resp.available = ListRegionsKeys
             /\ config = last.preConfig
             /\ daemon = last.preDaemon
             /\ last.sm = <<>>
    /\ \A p \in Procs :
          loc[p].pc # "idle" => loc[p].region \in ListRegionsKeys

C3_Witness ==
    /\ Done("switch")
    /\ UnknownRegion(last.resp)
    /\ last.arg.val \notin ListRegionsKeys
    /\ last.resp.available # {}
    /\ path_exists(config)

\* C4: switchRegion with an empty or missing region code fails with
\* InvalidRequest (400) without any filesystem access or service-manager call,
\* config file and daemon unchanged; no handler goes on with an empty code,
\* not even when the empty code is a key of the catalog.
C4_EmptyRegion ==
    /\ (Done("switch") /\ (last.arg = None \/ last.arg = Some(<<>>)))
          => /\ InvalidRequest(last.resp)
             /\ last.resp.keys = {"error"}
             /\ last.fs = <<>>
             /\ last.sm = <<>>
             /\ config = last.preConfig
             /\ daemon = last.preDaemon
    /\ \A p \in Procs : loc[p].pc # "idle" => loc[p].region # <<>>

C4_Witness ==
    /\ Done("switch")
    /\ last.arg = Some(<<>>)
    /\ InvalidRequest(last.resp)
    /\ <<>> \in ListRegionsKeys
    /\ path_exists(config)

\* C5: switchRegion(r), r in the catalog, called while the daemon is not
\* running succeeds with restarted=false, issues no restart or start, leaves
\* the daemon not running, and a following getStatus() reports running=false
\* and region=r.
C5_SwitchWhileStopped ==
    (SwitchedKnown /\ last.preDaemon = "stopped")
        => /\ Success(last.resp)
           /\ last.resp.restarted = FALSE
           /\ Mutating(last.sm) = {}
           /\ daemon = "stopped"
           /\ \A ok \in BOOLEAN :
                 /\ status(ok).status = 200
                 /\ status(ok).running = FALSE
                 /\ status(ok).region = last.arg

\* C6: switchRegion(r), r in the catalog, called while the daemon is running
\* and with every service-manager call succeeding returns success with
\* restarted=true, has invoked restart exactly once and nothing else that
\* changes the daemon, and a following getStatus() reports running=true and
\* region=r.
C6_SwitchWhileRunning ==
    (/\ SwitchedKnown
     /\ last.preDaemon = "running"
     /\ \A i \in 1..Len(last.sm) : last.sm[i].ok)
        => /\ Success(last.resp)
           /\ last.resp.restarted = TRUE
           /\ last.sm = <<[action |-> "is-active", ok |-> TRUE],
                          [action |-> "restart", ok |-> TRUE]>>
           /\ status(TRUE).running = TRUE
           /\ status(TRUE).region = last.arg

\* C7: when the restart issued by switchRegion(r) fails, the call fails with
\* RestartFailed (500), the config file names r's profile file all the same,
\* and currentRegionCode() returns r.
C7_RestartFailedKeepsConfig ==
    (/\ SwitchedKnown
     /\ last.preDaemon = "running"
     /\ \E i \in 1..Len(last.sm) :
           last.sm[i] = [action |-> "restart", ok |-> FALSE])
        => /\ RestartFailed(last.resp)
           /\ \E f \in regionsDir.files :
                 /\ EndsWith(f, DOT_CONF)
                 /\ RegionCodeOf(f) = last.arg.val
                 /\ config = update_config(PathJoin(REGIONS_DIR, f))
           /\ get_current_region(config) = last.arg

\* C8: startDaemon() with no config file fails with NotConfigured (400), calls
\* the service manager not at all, and leaves daemon and filesystem unchanged.
C8_StartNotConfigured ==
    (Done("start") /\ ~last.preConfig.exists)
        => /\ NotConfigured(last.resp)
           /\ last.sm = <<>>
           /\ last.fs = <<"exists:proton.conf">>
           /\ daemon = last.preDaemon
           /\ config = last.preConfig

C8_Witness ==
    /\ Done("start")
    /\ ~last.preConfig.exists
    /\ NotConfigured(last.resp)

\* C9: startDaemon() with a config file issues exactly one start; it returns
\* success with running=true if and only if that call succeeded, and fails
\* with StartFailed (500) carrying the diagnostic text otherwise; the config
\* file is unchanged either way.
C9_StartOnce ==
    (Done("start") /\ last.preConfig.exists)
        => /\ Len(last.sm) = 1
           /\ last.sm[1].action = "start"
           /\ last.sm[1].ok <=> (Success(last.resp) /\ last.resp.running)
           /\ ~last.sm[1].ok => StartFailed(last.resp)
           /\ config = last.preConfig

C9_Witness ==
    /\ Done("start")
    /\ last.preConfig.exists
    /\ last.sm = <<[action |-> "start", ok |-> FALSE]>>
    /\ StartFailed(last.resp)

\* C10 (as claimed): every stopDaemon() call, so each of two consecutive ones,
\* succeeds with running=false and leaves the daemon not running.
C10_StopAlwaysSucceeds ==
    Done("stop")
        => /\ Success(last.resp)
           /\ last.resp.running = FALSE
           /\ daemon = "stopped"

\* C10 (amended): stopDaemon() issues one stop to the service manager whether
\* or not the daemon is running; it returns success with running=false, the
\* daemon not running, exactly when that stop succeeded, and fails with
\* StopFailed (500) otherwise.
C10_StopIdempotent ==
    Done("stop")
        => /\ last.sm \in {<<[action |-> "stop", ok |-> TRUE]>>,
                           <<[action |-> "stop", ok |-> FALSE]>>}
           /\ last.sm[1].ok
                 => /\ Success(last.resp)
                    /\ last.resp.running = FALSE
                    /\ daemon = "stopped"
           /\ ~last.sm[1].ok => StopFailed(last.resp)
           /\ config = last.preConfig

C10_Witness ==
    /\ Done("stop")
    /\ last.preDaemon = "stopped"
    /\ last.sm = <<[action |-> "stop", ok |-> TRUE]>>
    /\ Success(last.resp)
    /\ daemon = "stopped"

\* proton.conf is readable and holds what update_config writes for a profile
NamesProfile(cfg) ==
    /\ cfg.exists
    /\ Readable(cfg)
    /\ \E f \in FileNames :
          cfg.content = ConfigContent(PathJoin(REGIONS_DIR, f), DEFAULT_SOCKS_BIND)

\* C11: getStatus() and listRegionsWithCurrent() succeed in every state: a
\* status query that failed or timed out gives running=false, and a
\* proton.conf that is absent, unreadable or without a well-formed
\* `WGConfig = <path>` line gives region none, never an error response.
C11_QueriesNeverFail ==
    (Done("status") \/ Done("regions"))
        => /\ last.resp.status = 200
           /\ (last.op = "status" /\ ~last.sm[1].ok) => ~last.resp.running
           /\ ~NamesProfile(last.preConfig)
                 => (IF last.op = "status" THEN last.resp.region
                     ELSE last.resp.current) = None

\* the name of a profile file without its extension
StemOf(f) == SubSeq(f, 1, Len(f) - Len(DOT_CONF))

\* Y of a stem X-Y, the whole stem when it has no "-"
AfterLastDash(s) ==
    LET dashes == {i \in 1..Len(s) : s[i] = "-"}
        from == IF dashes = {} THEN 0
                ELSE CHOOSE i \in dashes : \A j \in dashes : j <= i
    IN  SubSeq(s, from + 1, Len(s))

\* the code a profile file name stands for
NameCode(f) == AfterLastDash(StemOf(f))

\* the profile files of the regions directory
Profiles == {f \in regionsDir.files : EndsWith(f, DOT_CONF)}

C13_FailuresStructured ==
    (AllIdle /\ last.op # "none")
        => /\ last.resp # Unhandled
           /\ last.resp.status \in {200, 400, 500}
           /\ last.resp.status # 200 => "error" \in last.resp.keys

\* C14: proton.conf is created or overwritten only by a switchRegion call
\* that passed validation: startDaemon, stopDaemon, getStatus,
\* listRegionsWithCurrent, health and a switchRegion refused with
\* InvalidRequest or UnknownRegion leave its existence and content as they
\* were, and every write leaves WGConfig naming the file of a profile whose
\* code is the requested one and BindAddress the fixed default.
C14_OnlyValidSwitchWrites ==
    /\ (AllIdle /\ last.op \in {"start", "stop", "status", "regions", "health"})
          => /\ config = last.preConfig
             /\ \A i \in 1..Len(last.fs) : last.fs[i] # "write:proton.conf"
    /\ (Done("switch")
           /\ (InvalidRequest(last.resp) \/ UnknownRegion(last.resp)))
          => /\ config = last.preConfig
             /\ \A i \in 1..Len(last.fs) : last.fs[i] # "write:proton.conf"
    /\ (Done("switch")
           /\ ~(InvalidRequest(last.resp) \/ UnknownRegion(last.resp)))
          => /\ config.exists
             /\ \E i \in 1..Len(last.fs) : last.fs[i] = "write:proton.conf"
             /\ \E f \in Profiles :
                   /\ NameCode(f) = last.arg.val
                   /\ config.content =
                         ConfigContent(PathJoin(REGIONS_DIR, f),
                                       DEFAULT_SOCKS_BIND)

C14_Witness ==
    /\ Done("switch")
    /\ Success(last.resp)
    /\ last.preConfig.exists
    /\ config # last.preConfig
    /\ config.content =
          ConfigContent(PathJoin(REGIONS_DIR, F_proton_us), DEFAULT_SOCKS_BIND)

\* proton.conf holds what update_config writes for the request of p
Overwritten(p) ==
    /\ config.exists
    /\ config.content = ConfigContent(loc[p].file, DEFAULT_SOCKS_BIND)
    /\ \E f \in Profiles :
          /\ NameCode(f) = loc[p].region
          /\ loc[p].file = PathJoin(REGIONS_DIR, f)

\* C15: inside switchRegion the overwrite of proton.conf is complete before
\* the status query that gives wasRunning, and that query comes before the
\* restart; the restart is issued only if the query reported running, and
\* never before proton.conf holds the requested region.
C15_SwitchOrder ==
    /\ \A p \in DOMAIN loc :
          /\ loc[p].pc = "update"
                => /\ loc[p].sm = <<>>
                   /\ \A i \in 1..Len(loc[p].fs) :
                         loc[p].fs[i] # "write:proton.conf"
          /\ loc[p].pc = "query"
                => /\ loc[p].sm = <<>>
                   /\ Overwritten(p)
          /\ loc[p].pc = "restart"
                => /\ loc[p].sm = <<[action |-> "is-active", ok |-> TRUE]>>
                   /\ loc[p].seen = "running"
                   /\ Overwritten(p)
    /\ Done("switch")
          => /\ Len(last.sm) <= 2
             /\ \A i \in 1..Len(last.sm) :
                   last.sm[i].action = (IF i = 1 THEN "is-active" ELSE "restart")
             /\ Len(last.sm) = 2
                   => /\ last.sm[1].ok
                      /\ last.preDaemon = "running"
                      /\ \E i \in 1..Len(last.fs) :
                            last.fs[i] = "write:proton.conf"

C15_Witness ==
    \E p \in DOMAIN loc :
       /\ loc[p].pc = "restart"
       /\ loc[p].preConfig.exists
       /\ config # loc[p].preConfig
       /\ Overwritten(p)

\* the profile files whose code is r
ProfilesOf(r) == {f \in Profiles : NameCode(f) = r}

\* the last request was a successful switchRegion(r) made while proton.conf
\* already named a profile of code r
SwitchedAgain ==
    /\ Done("switch")
    /\ Success(last.resp)
    /\ \E f \in ProfilesOf(last.arg.val) :
          last.preConfig = update_config(PathJoin(REGIONS_DIR, f))

\* C16 (as claimed): switchRegion(r) with r already active rewrites the file
\* and restarts a running daemon, and leaves the content of proton.conf and
\* the daemon's running state as the previous switchRegion(r) left them.
C16_SwitchTwiceSame ==
    SwitchedAgain
        => /\ \E i \in 1..Len(last.fs) : last.fs[i] = "write:proton.conf"
           /\ config = last.preConfig
           /\ daemon = last.preDaemon

\* C16 (amended): switchRegion(r) with r already active rewrites the file and
\* restarts a daemon its status query found running; afterwards the daemon's
\* running state is as before and proton.conf names a profile of code r, the
\* same content as before when one profile file has code r.
C16_SwitchTwiceSameCode ==
    SwitchedAgain
        => /\ \E i \in 1..Len(last.fs) : last.fs[i] = "write:proton.conf"
           /\ (last.preDaemon = "running" /\ last.sm[1].ok)
                 => /\ last.sm[2] = [action |-> "restart", ok |-> TRUE]
                    /\ last.resp.restarted
           /\ daemon = last.preDaemon
           /\ \E f \in ProfilesOf(last.arg.val) :
                 config = update_config(PathJoin(REGIONS_DIR, f))
           /\ Cardinality(ProfilesOf(last.arg.val)) = 1
                 => config = last.preConfig

C16_Witness ==
    /\ SwitchedAgain
    /\ last.preDaemon = "running"
    /\ last.resp.restarted
    /\ config = last.preConfig
    /\ daemon = "running"

\* C17: the path in proton.conf is a weak reference: removing the profile
\* file it names leaves proton.conf and the code currentRegionCode() derives
\* from it as they are, and a getStatus() or listRegionsWithCurrent() made
\* while proton.conf names a profile reports that code, without error,
\* whether or not a file of the directory still has it.
C17_WeakReference ==
    [][/\ regionsDir' # regionsDir
             => /\ config' = config
                /\ get_current_region(config') = get_current_region(config)
       /\ (Done("status") /\ NamesProfile(last.preConfig))'
             => /\ last'.resp.status = 200
                /\ last'.resp.region = get_current_region(config')
                /\ last'.resp.region.tag = "some"
       /\ (Done("regions") /\ NamesProfile(last.preConfig))'
             => /\ last'.resp.status = 200
                /\ last'.resp.current = get_current_region(config')
                /\ last'.resp.current.tag = "some"]_vars

C17_Witness ==
    /\ Done("status")
    /\ config = update_config(PathJoin(REGIONS_DIR, F_proton_jp))
    /\ F_proton_jp \notin regionsDir.files
    /\ last.preConfig = config
    /\ last.resp.region = Some(NameCode(F_proton_jp))
    /\ NameCode(F_proton_jp) \notin ListRegionsKeys

\* C18 (as claimed): whenever no request is in flight, the daemon is running
\* and the most recent switchRegion returned success, the daemon holds the
\* proton.conf of now, also in runs in which status queries fail or time out.
C18_LoadedIsConfigured ==
    (AllIdle /\ daemon = "running" /\ lastSwitch \in {"answered", "unanswered"})
        => loaded = config

\* C18 (amended): whenever no request is in flight, the daemon is running and
\* the most recent switchRegion returned success after a status query that
\* was answered, the daemon holds the proton.conf of now.
C18_LoadedIfAnswered ==
    (AllIdle /\ daemon = "running" /\ lastSwitch = "answered")
        => loaded = config

C18_Witness ==
    /\ Done("switch")
    /\ daemon = "running"
    /\ lastSwitch = "answered"
    /\ last.resp.restarted
    /\ config # last.preConfig
    /\ loaded = config

\* C19: with switchRegion calls of valid codes interleaved at their steps
\* (config write, status query, restart), the daemon running and every
\* restart succeeding: proton.conf changes only by one caller's whole write,
\* each restart loads the file as it is then, and once all calls have
\* returned, the last of them with its restart done, proton.conf holds the
\* profile of a requested region and the daemon has loaded that same file.
C19_LastWriterLoaded ==
    [][/\ config' # config
             => \E p \in DOMAIN loc :
                   /\ loc[p].pc = "update"
                   /\ loc'[p].pc = "query"
                   /\ config' = update_config(loc[p].file)
       /\ loaded' # loaded => loaded' = config'
       /\ (Done("switch") /\ last.resp.restarted)'
             => /\ daemon' = "running"
                /\ loaded' = config'
                /\ \E f \in Profiles :
                      config' = update_config(PathJoin(REGIONS_DIR, f))]_vars

\* both callers switched at the same time, to different regions, the one that
\* wrote first restarted last
C19_Witness ==
    /\ Done("switch")
    /\ last.resp.restarted
    /\ last.preConfig = update_config(PathJoin(REGIONS_DIR, F_proton_jp))
    /\ last.arg = Some(NameCode(F_proton_jp))
    /\ config = update_config(PathJoin(REGIONS_DIR, F_proton_us))
    /\ loaded = config

\* the step is the restart of p's switch request
RestartStep(p) == loc[p].pc = "restart" /\ loc'[p].pc = "idle"

\* C20 (as claimed): switchRegion never moves the daemon from stopped to
\* running: once a stopDaemon interleaved with it has returned success, and
\* no request has returned since, no step of a switchRegion starts the daemon.
C20_SwitchNeverStarts ==
    [][(/\ last.op = "stop"
        /\ Success(last.resp)
        /\ daemon = "stopped"
        /\ daemon' = "running")
          => \A p \in DOMAIN loc : ~RestartStep(p)]_vars

\* C20 (amended): switchRegion changes the daemon's state only by its
\* restart, and issues the restart only after its own status query was
\* answered and found the daemon running; a daemon that is stopped when the
\* query is made is left stopped.
C20_RestartOnlyIfSeenRunning ==
    [][\A p \in DOMAIN loc :
          /\ RestartStep(p)
                => /\ loc[p].seen = "running"
                   /\ loc[p].sm = <<[action |-> "is-active", ok |-> TRUE]>>
          /\ (loc[p].pc \in {"update", "query"} /\ loc'[p] # loc[p])
                => /\ daemon' = daemon
                   /\ (loc[p].pc = "query" /\ daemon = "stopped")
                         => loc'[p].pc = "idle"
          /\ (loc[p].pc = "idle" /\ loc'[p].pc = "update")
                => daemon' = daemon]_vars

\* a stop has returned success between the status query of a switch request
\* and its restart
C20_Witness ==
    /\ last.op = "stop"
    /\ Success(last.resp)
    /\ daemon = "stopped"
    /\ \E p \in DOMAIN loc :
          /\ loc[p].pc = "restart"
          /\ loc[p].seen = "running"

=============================================================================
